---- MODULE Spec2Model ----
(***************************************************************************)
(* wordwarden (src/src/main.rs): a multi-target line scanner.              *)
(*                                                                         *)
(* Strings of the program (arguments, paths, lines, targets, the escape    *)
(* marker) are sequences of one-character strings, so that substring       *)
(* tests, starts_with, file_name, regex escaping and length computations   *)
(* are computed, not assumed.                                              *)
(***************************************************************************)
EXTENDS Integers, Sequences, FiniteSets

(***************************************************************************)
(* Bounds of the model.                                                    *)
(***************************************************************************)
\* Number of command-line arguments after the program name.
MaxArgs == 3
\* Number of lines of a file handed to check_file in SpecCheckFile.
MaxLines == 2

(***************************************************************************)
(* String helpers (Rust str methods).                                      *)
(***************************************************************************)
\* str::starts_with
StartsWith(s, prefix) ==
    /\ Len(prefix) <= Len(s)
    /\ SubSeq(s, 1, Len(prefix)) = prefix

\* str::contains with a literal pattern: some window of s equals pat.
Contains(s, pat) ==
    \E start \in 0..(Len(s) - Len(pat)) :
        SubSeq(s, start + 1, start + Len(pat)) = pat

\* str::replace(from, ""): every non-overlapping occurrence of `from`, found
\* left to right, is removed.
RECURSIVE RemoveAll(_, _)
RemoveAll(s, from) ==
    IF Len(from) = 0 \/ Len(s) < Len(from) THEN s
    ELSE IF SubSeq(s, 1, Len(from)) = from
         THEN RemoveAll(SubSeq(s, Len(from) + 1, Len(s)), from)
         ELSE <<Head(s)>> \o RemoveAll(Tail(s), from)

\* usize::to_string: the decimal digits of n.
DigitChar(d) ==
    CASE d = 0 -> "0" [] d = 1 -> "1" [] d = 2 -> "2" [] d = 3 -> "3"
      [] d = 4 -> "4" [] d = 5 -> "5" [] d = 6 -> "6" [] d = 7 -> "7"
      [] d = 8 -> "8" [] d = 9 -> "9"

RECURSIVE UsizeToString(_)
UsizeToString(n) ==
    IF n < 10 THEN <<DigitChar(n)>>
    ELSE UsizeToString(n \div 10) \o <<DigitChar(n % 10)>>

(***************************************************************************)
(* String constants of the program and of the modelled inputs.             *)
(***************************************************************************)
BOLD_START == <<"ESC[1m">>
BOLD_END == <<"ESC[0m">>

DEFAULT_ESCAPE ==
    <<"w","o","r","d","w","a","r","d","e","n",":","s","k","i","p","-",
      "l","i","n","e">>

PRE_COMMIT_YAML ==
    <<".","p","r","e","-","c","o","m","m","i","t","-","c","o","n","f","i","g",
      ".","y","a","m","l">>
PRE_COMMIT_YML ==
    <<".","p","r","e","-","c","o","m","m","i","t","-","c","o","n","f","i","g",
      ".","y","m","l">>

FLAG_HELP_SHORT == <<"-","h">>
FLAG_HELP_LONG == <<"-","-","h","e","l","p">>
FLAG_CASECHECK == <<"-","-","c","a","s","e","c","h","e","c","k">>
FLAG_NO_CASECHECK == <<"-","-","n","o","-","c","a","s","e","c","h","e","c","k">>
FLAG_ESCAPE == <<"-","-","e","s","c","a","p","e","=">>
FLAG_WORD == <<"-","w">>

(***************************************************************************)
(* The file system the program runs on: a map from paths to nodes.  A file *)
(* holds the results BufRead::lines yields for it, one per line: decoded   *)
(* text, or the error of that read.  `ok` is whether File::open (a file)   *)
(* or read_dir (a directory) succeeds.                                     *)
(***************************************************************************)
Text(t) == [kind |-> "Ok", text |-> t]
InvalidDataLine == [kind |-> "InvalidData", text |-> <<>>]
OtherErrorLine == [kind |-> "Other", text |-> <<>>]

FileNode(ok, lines) == [kind |-> "file", ok |-> ok, entries |-> <<>>, lines |-> lines]
DirNode(ok, entries) == [kind |-> "dir", ok |-> ok, entries |-> entries, lines |-> <<>>]

\* Path::join
Join(dir, name) == dir \o <<"/">> \o name

PathD == <<"d">>
PathDT == Join(PathD, <<"t">>)
PathDS == Join(PathD, <<"s">>)
PathDYaml == Join(PathD, PRE_COMMIT_YAML)
PathDTC == Join(PathDT, <<"c">>)
PathDSZ == Join(PathDS, <<"z">>)
PathU == <<"u">>
PathX == <<"x">>

Paths == {PathD, PathDT, PathDS, PathDYaml, PathDTC, PathDSZ, PathU, PathX,
          PRE_COMMIT_YAML}

FS ==
    [p \in Paths |->
       CASE p = PathD -> DirNode(TRUE, <<PRE_COMMIT_YAML, <<"s">>, <<"t">>>>)
         [] p = PathDT -> DirNode(TRUE, <<<<"c">>>>)
         [] p = PathDS -> DirNode(FALSE, <<<<"z">>>>)
         [] p = PathDYaml ->
              FileNode(TRUE, <<Text(<<"F","o","o">>),
                               Text(<<"o"," ","#"," ","F","o","o">>),
                               Text(<<"f","o","o">>)>>)
         [] p = PathDTC ->
              FileNode(TRUE, <<Text(<<"n","o">>),
                               Text(<<"F","o","o"," ">> \o DEFAULT_ESCAPE),
                               Text(<<"f","o","o"," ","F","o","o">>)>>)
         [] p = PathDSZ -> FileNode(TRUE, <<Text(<<"F","o","o">>)>>)
         [] p = PathU ->
              FileNode(TRUE, <<Text(<<"F","o","o">>), InvalidDataLine,
                               Text(<<"o">>)>>)
         [] p = PathX -> FileNode(FALSE, <<Text(<<"F","o","o">>)>>)
         [] p = PRE_COMMIT_YAML -> FileNode(TRUE, <<Text(<<"F","o","o">>)>>)]

\* Path::is_file, Path::is_dir
IsFile(fs, p) == p \in DOMAIN fs /\ fs[p].kind = "file"
IsDir(fs, p) == p \in DOMAIN fs /\ fs[p].kind = "dir"

\* Path::file_name: the part after the last separator.
RECURSIVE FileName(_)
FileName(p) ==
    IF \E k \in 1..Len(p) : p[k] = "/"
    THEN FileName(Tail(p))
    ELSE p

\* Result values.
Ok(v) == [ok |-> TRUE, val |-> v, err |-> "none"]
Err(e) == [ok |-> FALSE, val |-> <<>>, err |-> e]

(***************************************************************************)
(* files_in_dir: the regular files under dir, depth first, in read_dir     *)
(* order; an unreadable subdirectory is dropped, an unreadable dir is Err. *)
(***************************************************************************)
RECURSIVE files_in_dir(_, _)
RECURSIVE FilesInEntries(_, _, _, _)
FilesInEntries(fs, dir, k, files) ==
    IF k > Len(fs[dir].entries) THEN files
    ELSE LET path == Join(dir, fs[dir].entries[k])
             sub == files_in_dir(fs, path)
         IN  IF IsFile(fs, path)
             THEN FilesInEntries(fs, dir, k + 1, Append(files, path))
             ELSE IF IsDir(fs, path)
             THEN FilesInEntries(fs, dir, k + 1,
                                 IF sub.ok THEN files \o sub.val ELSE files)
             ELSE FilesInEntries(fs, dir, k + 1, files)

files_in_dir(fs, dir) ==
    IF ~fs[dir].ok THEN Err("read_dir")
    ELSE Ok(FilesInEntries(fs, dir, 1, <<>>))

(***************************************************************************)
(* The regex crate, as far as the program uses it: regex::escape, the      *)
(* (?i) flag, literal characters, escaped characters and the dot.          *)
(***************************************************************************)
UpperLetters ==
    <<"A","B","C","D","E","F","G","H","I","J","K","L","M","N","O","P","Q","R",
      "S","T","U","V","W","X","Y","Z">>
LowerLetters ==
    <<"a","b","c","d","e","f","g","h","i","j","k","l","m","n","o","p","q","r",
      "s","t","u","v","w","x","y","z">>

\* Simple case folding of one character.
Fold(c) ==
    IF \E k \in 1..Len(UpperLetters) : UpperLetters[k] = c
    THEN LowerLetters[CHOOSE k \in 1..Len(UpperLetters) : UpperLetters[k] = c]
    ELSE c

\* The characters regex::escape puts a backslash before.
RegexMeta ==
    {"\\", ".", "+", "*", "?", "(", ")", "|", "[", "]", "{", "}", "^", "$",
     "#", "&", "-", "~"}

\* The characters that are operators of the pattern syntax when unescaped.
RegexOperators == {"+", "*", "?", "(", ")", "|", "[", "]", "{", "}", "^", "$"}

RECURSIVE regex_escape(_)
regex_escape(text) ==
    IF text = <<>> THEN <<>>
    ELSE (IF Head(text) \in RegexMeta THEN <<"\\", Head(text)>> ELSE <<Head(text)>>)
         \o regex_escape(Tail(text))

CaseInsensitiveFlag == <<"(", "?", "i", ")">>

\* The pattern built without regex::escape.
CaseInsensitivePatternUnescaped(text) == CaseInsensitiveFlag \o text

\* format!(r"(?i){}", regex::escape(text))
CaseInsensitivePattern(text) == CaseInsensitiveFlag \o regex_escape(text)

RECURSIVE RegexTokens(_)
RegexTokens(p) ==
    IF p = <<>> THEN <<>>
    ELSE IF Head(p) = "\\" /\ Len(p) >= 2
    THEN <<[kind |-> "lit", ch |-> p[2]]>> \o RegexTokens(SubSeq(p, 3, Len(p)))
    ELSE IF Head(p) = "."
    THEN <<[kind |-> "any", ch |-> "."]>> \o RegexTokens(Tail(p))
    ELSE IF Head(p) \in RegexOperators
    THEN <<[kind |-> "operator", ch |-> Head(p)]>> \o RegexTokens(Tail(p))
    ELSE <<[kind |-> "lit", ch |-> Head(p)]>> \o RegexTokens(Tail(p))

\* Regex::new
RegexNew(pattern) ==
    IF StartsWith(pattern, CaseInsensitiveFlag)
    THEN [ci |-> TRUE,
          toks |-> RegexTokens(SubSeq(pattern, Len(CaseInsensitiveFlag) + 1,
                                      Len(pattern)))]
    ELSE [ci |-> FALSE, toks |-> RegexTokens(pattern)]

TokenMatches(re, tok, c) ==
    CASE tok.kind = "lit" -> IF re.ci THEN Fold(tok.ch) = Fold(c) ELSE tok.ch = c
      [] tok.kind = "any" -> c # "\n"
      [] OTHER -> FALSE

\* The pattern matches the characters of s that start at offset start.
MatchesAt(re, s, start) ==
    /\ start + Len(re.toks) <= Len(s)
    /\ \A j \in 1..Len(re.toks) : TokenMatches(re, re.toks[j], s[start + j])

\* Regex::is_match
is_match(re, s) == \E start \in 0..Len(s) : MatchesAt(re, s, start)

\* Regex::replace_all with the closure of highlight_text: leftmost,
\* non-overlapping matches, each wrapped in BOLD_START and BOLD_END.
RECURSIVE ReplaceAllBold(_, _, _)
ReplaceAllBold(re, s, pos) ==
    IF MatchesAt(re, s, pos)
    THEN LET n == Len(re.toks)
         IN  BOLD_START \o SubSeq(s, pos + 1, pos + n) \o BOLD_END
             \o (IF n > 0 THEN ReplaceAllBold(re, s, pos + n)
                 ELSE IF pos < Len(s)
                 THEN <<s[pos + 1]>> \o ReplaceAllBold(re, s, pos + 1)
                 ELSE <<>>)
    ELSE IF pos < Len(s)
    THEN <<s[pos + 1]>> \o ReplaceAllBold(re, s, pos + 1)
    ELSE <<>>

highlight_text(line, text) ==
    ReplaceAllBold(RegexNew(CaseInsensitivePattern(text)), line, 0)

(***************************************************************************)
(* check_file: the occurrences of one target in one file.                  *)
(***************************************************************************)
Occurance(filename, line_number, target, line) ==
    [filename |-> filename, line_number |-> line_number,
     target_string |-> target, line_content |-> line]

\* The escape test applied to the start of the line only.
LineEscapedAtStart(line, escape) == StartsWith(line, escape)

\* The escape test of the line loop.
LineEscaped(line, escape) == Contains(line, escape)

\* The match test of the line loop; regex is the one compiled before the loop.
TargetInLine(line, target, check_case, regex) ==
    IF check_case THEN Contains(line, target) ELSE is_match(regex, line)

\* Every read error propagated.
LineErrorPropagate(kind) == Err(kind)

\* What a line that cannot be read does to the call.
LineError(kind) ==
    IF kind = "InvalidData" THEN Ok(<<>>) ELSE Err(kind)

\* The loop over reader.lines().enumerate(), from 0-based index on.
RECURSIVE CheckLines(_, _, _, _, _, _, _, _)
CheckLines(lines, index, results, filename, target, check_case, escape, regex) ==
    IF index >= Len(lines) THEN Ok(results)
    ELSE LET line_result == lines[index + 1]
             line == line_result.text
         IN  IF line_result.kind # "Ok" THEN LineError(line_result.kind)
             ELSE IF LineEscaped(line, escape)
             THEN CheckLines(lines, index + 1, results, filename, target,
                             check_case, escape, regex)
             ELSE IF TargetInLine(line, target, check_case, regex)
             THEN CheckLines(lines, index + 1,
                             Append(results,
                                    Occurance(filename, index + 1, target, line)),
                             filename, target, check_case, escape, regex)
             ELSE CheckLines(lines, index + 1, results, filename, target,
                             check_case, escape, regex)

check_file(fs, filename, target, check_case, escape) ==
    IF ~(filename \in DOMAIN fs /\ fs[filename].kind = "file" /\ fs[filename].ok)
    THEN Err("open")
    ELSE CheckLines(fs[filename].lines, 0, <<>>, filename, target, check_case,
                    escape,
                    IF ~check_case THEN RegexNew(CaseInsensitivePattern(target))
                    ELSE [ci |-> FALSE, toks |-> <<>>])

(***************************************************************************)
(* The state of a run of main.                                             *)
(***************************************************************************)
VARIABLES
    args,            \* env::args(): the program name, then the arguments
    fs,              \* the file system the run sees
    pc,              \* where main is: "start", "parse", "scan", "collected",
                     \* "print", "exited"
    i,               \* the index of the argument loop
    filepaths,       \* the files to scan, in discovery order
    search_strings,  \* the targets, in argument order
    check_case,      \* --casecheck / --no-casecheck
    escape,          \* the escape marker
    task,            \* per index of filepaths: "pending", "done", "skipped"
    slot,            \* per index of filepaths: the result of its closure
    saved_error,     \* the error the parallel collect keeps: the first to arrive
    last_done,       \* the index of the closure that finished last (0: none yet)
    all_results,     \* the value of the parallel collect
    results,         \* all_results.unwrap()
    max_line_length, \* the padding width
    stdout,          \* the lines printed
    stderr,          \* the diagnostics written
    exit_code        \* the exit code of the process, -1 while it runs

vars ==
    <<args, fs, pc, i, filepaths, search_strings, check_case, escape, task,
      slot, saved_error, last_done, all_results, results, max_line_length,
      stdout, stderr, exit_code>>

(***************************************************************************)
(* main: constants and inputs of a run.                                    *)
(***************************************************************************)
\* Exit code of the usage message.
UsageExitCode == 2
\* Exit code of a Rust process whose main thread panics.
PanicExitCode == 101
extra_line_space == 1

ProgramName == <<"w","w">>
WordFoo == <<"F","o","o">>
WordO == <<"o">>
ArgEscapeHash == FLAG_ESCAPE \o <<"#">>

\* The arguments a run may be given.
ArgUniverse ==
    {PathU, PathX, PathD, PathDTC, PRE_COMMIT_YAML, FLAG_CASECHECK,
     ArgEscapeHash, FLAG_WORD, WordFoo, WordO}

SeqsUpTo(S, n) == UNION {[1..k -> S] : k \in 0..n}

ArgLists == {<<ProgramName>> \o rest : rest \in SeqsUpTo(ArgUniverse, MaxArgs)}

\* args[k] of the source (0-based).
Arg(k) == args[k + 1]

Init ==
    /\ args \in ArgLists
    /\ fs = FS
    /\ pc = "start"
    /\ i = 1
    /\ filepaths = <<>>
    /\ search_strings = <<>>
    /\ check_case = FALSE
    /\ escape = DEFAULT_ESCAPE
    /\ task = <<>>
    /\ slot = <<>>
    /\ saved_error = "none"
    /\ last_done = 0
    /\ all_results = Ok(<<>>)
    /\ results = <<>>
    /\ max_line_length = 0
    /\ stdout = <<>>
    /\ stderr = <<>>
    /\ exit_code = -1

(***************************************************************************)
(* main, lines 110-127: the usage check.                                   *)
(***************************************************************************)
Usage ==
    \/ Len(args) < 2
    \/ \E k \in 1..Len(args) : args[k] = FLAG_HELP_SHORT
    \/ \E k \in 1..Len(args) : args[k] = FLAG_HELP_LONG

Start ==
    /\ pc = "start"
    /\ IF Usage
       THEN /\ stderr' = Append(stderr, "usage")
            /\ exit_code' = UsageExitCode
            /\ pc' = "exited"
       ELSE /\ pc' = "parse"
            /\ UNCHANGED <<stderr, exit_code>>
    /\ UNCHANGED <<args, fs, i, filepaths, search_strings, check_case, escape,
                   task, slot, saved_error, last_done, all_results, results,
                   max_line_length, stdout>>

(***************************************************************************)
(* main, lines 134-167: one iteration of the argument loop.                *)
(***************************************************************************)
ExcludedFileNames == {PRE_COMMIT_YAML, PRE_COMMIT_YML}

\* A direct file argument pushed whatever its name.
PushDirectFileAlways(fps, path) == Append(fps, path)

\* Lines 143-147: a direct file argument.
PushDirectFile(fps, path) ==
    IF FileName(path) # PRE_COMMIT_YAML /\ FileName(path) # PRE_COMMIT_YML
    THEN Append(fps, path)
    ELSE fps

\* A directory argument expanded to its immediate files only.
ExtendWithDirShallow(f, fps, path) ==
    IF ~f[path].ok THEN fps
    ELSE fps \o SelectSeq([k \in 1..Len(f[path].entries) |->
                              Join(path, f[path].entries[k])],
                          LAMBDA q : IsFile(f, q))

\* Lines 149-152: a directory argument.
ExtendWithDir(f, fps, path) ==
    LET entries == files_in_dir(f, path)
    IN  IF entries.ok THEN fps \o entries.val ELSE fps

ParseArg ==
    /\ pc = "parse"
    /\ i <= Len(args) - 1
    /\ LET arg == Arg(i)
       IN  IF IsFile(fs, arg)
           THEN /\ filepaths' = PushDirectFile(filepaths, arg)
                /\ i' = i + 1
                /\ UNCHANGED <<search_strings, check_case, escape, pc, stderr,
                               exit_code>>
           ELSE IF IsDir(fs, arg)
           THEN /\ filepaths' = ExtendWithDir(fs, filepaths, arg)
                /\ i' = i + 1
                /\ UNCHANGED <<search_strings, check_case, escape, pc, stderr,
                               exit_code>>
           ELSE IF StartsWith(arg, FLAG_CASECHECK)
           THEN /\ check_case' = TRUE
                /\ i' = i + 1
                /\ UNCHANGED <<filepaths, search_strings, escape, pc, stderr,
                               exit_code>>
           ELSE IF StartsWith(arg, FLAG_NO_CASECHECK)
           THEN /\ check_case' = FALSE
                /\ i' = i + 1
                /\ UNCHANGED <<filepaths, search_strings, escape, pc, stderr,
                               exit_code>>
           ELSE IF StartsWith(arg, FLAG_ESCAPE)
           THEN /\ escape' = RemoveAll(arg, FLAG_ESCAPE)
                /\ i' = i + 1
                /\ UNCHANGED <<filepaths, search_strings, check_case, pc,
                               stderr, exit_code>>
           ELSE IF StartsWith(arg, FLAG_WORD)
           THEN IF i + 1 <= Len(args) - 1
                THEN /\ search_strings' = Append(search_strings, Arg(i + 1))
                     /\ i' = i + 2
                     /\ UNCHANGED <<filepaths, check_case, escape, pc, stderr,
                                    exit_code>>
                ELSE \* args[i] is out of bounds: the indexing panics
                     /\ stderr' = Append(stderr, "panic")
                     /\ exit_code' = PanicExitCode
                     /\ pc' = "exited"
                     /\ i' = i + 1
                     /\ UNCHANGED <<filepaths, search_strings, check_case,
                                    escape>>
           ELSE /\ search_strings' = Append(search_strings, arg)
                /\ i' = i + 1
                /\ UNCHANGED <<filepaths, check_case, escape, pc, stderr,
                               exit_code>>
    /\ UNCHANGED <<args, fs, task, slot, saved_error, last_done, all_results,
                   results, max_line_length, stdout>>

(***************************************************************************)
(* main, lines 169-182: the parallel scan.  Each file is one closure call; *)
(* the calls run in any order.  The collect into io::Result keeps the      *)
(* first error to arrive and may skip calls not yet started after it; it   *)
(* returns once no call is left, with the outputs in index order.          *)
(***************************************************************************)
SpawnTasks ==
    /\ pc = "parse"
    /\ i > Len(args) - 1
    /\ pc' = "scan"
    /\ task' = [k \in 1..Len(filepaths) |-> "pending"]
    /\ slot' = [k \in 1..Len(filepaths) |-> Ok(<<>>)]
    /\ UNCHANGED <<args, fs, i, filepaths, search_strings, check_case, escape,
                   saved_error, last_done, all_results, results,
                   max_line_length, stdout, stderr, exit_code>>

\* Lines 171-180: the closure, from target k on.
RECURSIVE FileTargets(_, _, _, _, _, _, _)
FileTargets(f, path, targets, k, cc, esc, file_results) ==
    IF k > Len(targets) THEN Ok(file_results)
    ELSE LET r == check_file(f, path, targets[k], cc, esc)
         IN  IF ~r.ok THEN r
             ELSE FileTargets(f, path, targets, k + 1, cc, esc,
                              file_results \o r.val)

FileTask(f, path, targets, cc, esc) ==
    FileTargets(f, path, targets, 1, cc, esc, <<>>)

RunTask(k) ==
    /\ pc = "scan"
    /\ k \in DOMAIN task
    /\ task[k] = "pending"
    /\ LET r == FileTask(fs, filepaths[k], search_strings, check_case, escape)
       IN  /\ slot' = [slot EXCEPT ![k] = r]
           /\ saved_error' = IF ~r.ok /\ saved_error = "none" THEN r.err
                             ELSE saved_error
    /\ task' = [task EXCEPT ![k] = "done"]
    /\ last_done' = k
    /\ UNCHANGED <<args, fs, pc, i, filepaths, search_strings, check_case,
                   escape, all_results, results, max_line_length, stdout,
                   stderr, exit_code>>

SkipTask(k) ==
    /\ pc = "scan"
    /\ k \in DOMAIN task
    /\ task[k] = "pending"
    /\ saved_error # "none"
    /\ task' = [task EXCEPT ![k] = "skipped"]
    /\ UNCHANGED <<args, fs, pc, i, filepaths, search_strings, check_case,
                   escape, slot, saved_error, last_done, all_results, results,
                   max_line_length, stdout, stderr, exit_code>>

\* The concatenation of the closures' outputs, in index order.
RECURSIVE FlattenSlots(_, _)
FlattenSlots(s, n) ==
    IF n = 0 THEN <<>> ELSE FlattenSlots(s, n - 1) \o s[n].val

\* The outputs concatenated with the last closure to finish put last.
CollectResultsByArrival(s, err) ==
    IF err # "none" THEN Err(err)
    ELSE IF last_done = 0 THEN Ok(<<>>)
    ELSE Ok(FlattenSlots([k \in 1..(Len(s) - 1) |->
                             IF k < last_done THEN s[k] ELSE s[k + 1]],
                         Len(s) - 1)
            \o s[last_done].val)

\* The outputs of the closures that succeeded, errors dropped.
CollectResultsIgnoringErrors(s, err) == Ok(FlattenSlots(s, Len(s)))

CollectResults(s, err) ==
    IF err # "none" THEN Err(err) ELSE Ok(FlattenSlots(s, Len(s)))

Collect ==
    /\ pc = "scan"
    /\ \A k \in DOMAIN task : task[k] # "pending"
    /\ all_results' = CollectResults(slot, saved_error)
    /\ pc' = "collected"
    /\ UNCHANGED <<args, fs, i, filepaths, search_strings, check_case, escape,
                   task, slot, saved_error, last_done, results,
                   max_line_length, stdout, stderr, exit_code>>

(***************************************************************************)
(* main, lines 184-192: unwrap, found_any and the padding width.           *)
(***************************************************************************)
MaxOf(S) == CHOOSE m \in S : \A x \in S : x <= m

LabelLength(r) ==
    extra_line_space + Len(r.filename) + Len(UsizeToString(r.line_number))

MaxLineLength(rs) ==
    IF rs = <<>> THEN 0
    ELSE MaxOf({LabelLength(rs[k]) : k \in 1..Len(rs)})

Unwrap ==
    /\ pc = "collected"
    /\ IF all_results.ok
       THEN /\ results' = all_results.val
            /\ max_line_length' = MaxLineLength(all_results.val)
            /\ pc' = "print"
            /\ UNCHANGED <<stderr, exit_code>>
       ELSE /\ stderr' = Append(stderr, "panic")
            /\ exit_code' = PanicExitCode
            /\ pc' = "exited"
            /\ UNCHANGED <<results, max_line_length>>
    /\ UNCHANGED <<args, fs, i, filepaths, search_strings, check_case, escape,
                   task, slot, saved_error, last_done, all_results, stdout>>

(***************************************************************************)
(* main, lines 193-204: one line per result, then the exit code.           *)
(***************************************************************************)
\* format!("{:<width$}", s)
PadRight(s, width) ==
    IF Len(s) >= width THEN s
    ELSE s \o [k \in 1..(width - Len(s)) |-> " "]

FilenameAndLineNumber(r) ==
    r.filename \o <<":">> \o UsizeToString(r.line_number)

PrintLine(r, width) ==
    PadRight(FilenameAndLineNumber(r), width) \o <<" ", "-", ">", " ">>
    \o highlight_text(r.line_content, r.target_string)

PrintResult ==
    /\ pc = "print"
    /\ Len(stdout) < Len(results)
    /\ stdout' = Append(stdout, PrintLine(results[Len(stdout) + 1],
                                          max_line_length))
    /\ UNCHANGED <<args, fs, pc, i, filepaths, search_strings, check_case,
                   escape, task, slot, saved_error, last_done, all_results,
                   results, max_line_length, stderr, exit_code>>

ExitCodeInverted(found_any) == IF found_any THEN 0 ELSE 1

ExitCode(found_any) == IF found_any THEN 1 ELSE 0

Exit ==
    /\ pc = "print"
    /\ Len(stdout) = Len(results)
    /\ exit_code' = ExitCode(results # <<>>)
    /\ pc' = "exited"
    /\ UNCHANGED <<args, fs, i, filepaths, search_strings, check_case, escape,
                   task, slot, saved_error, last_done, all_results, results,
                   max_line_length, stdout, stderr>>

Next ==
    \/ Start
    \/ ParseArg
    \/ SpawnTasks
    \/ \E k \in DOMAIN task : RunTask(k)
    \/ \E k \in DOMAIN task : SkipTask(k)
    \/ Collect
    \/ Unwrap
    \/ PrintResult
    \/ Exit

Spec == Init /\ [][Next]_vars

(***************************************************************************)
(* check_file on its own: the run `ww [--casecheck] --escape=<marker> u -w *)
(* <target>` over every file u of at most MaxLines lines drawn from        *)
(* LineResults.  One file, so no call is ever skipped.                     *)
(***************************************************************************)
LineResults ==
    {Text(<<"a","a">>), Text(<<"A",".">>), Text(<<"a","b">>),
     Text(<<"a","#">>), Text(<<"b">>), InvalidDataLine, OtherErrorLine}

CheckFileTargets == {<<"a">>, <<"a",".">>}
CheckFileEscapes == {<<"#">>, <<>>, DEFAULT_ESCAPE}

InitCheckFile ==
    /\ \E lines \in SeqsUpTo(LineResults, MaxLines) :
           fs = [p \in {PathU} |-> FileNode(TRUE, lines)]
    /\ \E cc \in BOOLEAN, esc \in CheckFileEscapes, target \in CheckFileTargets :
           args = <<ProgramName>>
                  \o (IF cc THEN <<FLAG_CASECHECK>> ELSE <<>>)
                  \o <<FLAG_ESCAPE \o esc, PathU, FLAG_WORD, target>>
    /\ pc = "start"
    /\ i = 1
    /\ filepaths = <<>>
    /\ search_strings = <<>>
    /\ check_case = FALSE
    /\ escape = DEFAULT_ESCAPE
    /\ task = <<>>
    /\ slot = <<>>
    /\ saved_error = "none"
    /\ last_done = 0
    /\ all_results = Ok(<<>>)
    /\ results = <<>>
    /\ max_line_length = 0
    /\ stdout = <<>>
    /\ stderr = <<>>
    /\ exit_code = -1

NextCheckFile ==
    \/ Start
    \/ ParseArg
    \/ SpawnTasks
    \/ \E k \in DOMAIN task : RunTask(k)
    \/ Collect
    \/ Unwrap
    \/ PrintResult
    \/ Exit

SpecCheckFile == InitCheckFile /\ [][NextCheckFile]_vars

(***************************************************************************)
(* Notions the properties are stated in.                                   *)
(***************************************************************************)
FoldAll(s) == [k \in 1..Len(s) |-> Fold(s[k])]

\* The line holds the target under the case rule.
HoldsTarget(text, target, cc) ==
    IF cc THEN \E a \in 0..Len(text) :
                   /\ a + Len(target) <= Len(text)
                   /\ \A j \in 1..Len(target) : text[a + j] = target[j]
    ELSE \E a \in 0..Len(text) :
             /\ a + Len(target) <= Len(text)
             /\ \A j \in 1..Len(target) : Fold(text[a + j]) = Fold(target[j])

\* The line holds the escape marker.
HoldsEscape(text, esc) ==
    \E a \in 0..Len(text) :
        /\ a + Len(esc) <= Len(text)
        /\ \A j \in 1..Len(esc) : text[a + j] = esc[j]

\* The 1-based numbers of the lines to report.
ReportedLines(lines, target, cc, esc) ==
    {n \in 1..Len(lines) :
        /\ HoldsTarget(lines[n].text, target, cc)
        /\ ~HoldsEscape(lines[n].text, esc)}

\* The elements of a finite set of numbers, ascending.
RECURSIVE Ascending(_)
Ascending(S) ==
    IF S = {} THEN <<>>
    ELSE LET m == CHOOSE x \in S : \A y \in S : x <= y
         IN  <<m>> \o Ascending(S \ {m})

\* One Occurance per line to report, in ascending line order.
ExpectedOccurrences(path, lines, target, cc, esc) ==
    LET ns == Ascending(ReportedLines(lines, target, cc, esc))
    IN  [k \in 1..Len(ns) |->
           [filename |-> path, line_number |-> ns[k],
            target_string |-> target, line_content |-> lines[ns[k]].text]]

AllLinesDecode(lines) == \A n \in 1..Len(lines) : lines[n].kind = "Ok"

\* The kind of the first line that cannot be read ("Ok" when all can).
FirstFailure(lines) ==
    IF AllLinesDecode(lines) THEN "Ok"
    ELSE lines[CHOOSE n \in 1..Len(lines) :
                  /\ lines[n].kind # "Ok"
                  /\ \A m \in 1..(n - 1) : lines[m].kind = "Ok"].kind

\* The concatenation of the sequences of ss, in order.
RECURSIVE Concat(_)
Concat(ss) ==
    IF ss = <<>> THEN <<>> ELSE Head(ss) \o Concat(Tail(ss))

(***************************************************************************)
(* C2: for a file all of whose lines decode, the closure's output for the  *)
(* one target of the run is exactly one Occurance for each line that holds *)
(* the target under the case rule (literally when check_case, case-folded  *)
(* and still literally otherwise) and does not hold the escape marker,     *)
(* with the line's 1-based number, in ascending line order.                *)
(***************************************************************************)
C2_CheckFileExact ==
    \A k \in DOMAIN task :
        (/\ task[k] = "done"
         /\ Len(search_strings) = 1
         /\ fs[filepaths[k]].ok
         /\ AllLinesDecode(fs[filepaths[k]].lines))
        => /\ slot[k].ok
           /\ slot[k].val =
                 ExpectedOccurrences(filepaths[k], fs[filepaths[k]].lines,
                                     search_strings[1], check_case, escape)

\* A case-insensitive call reported line 2 after skipping an escaped line 1
\* that holds the target, and line 2 holds the target twice.
C2_Witness ==
    /\ DOMAIN task = {1}
    /\ task[1] = "done"
    /\ ~check_case
    /\ search_strings = <<<<"a">>>>
    /\ escape = <<"#">>
    /\ fs[filepaths[1]].lines = <<Text(<<"a","#">>), Text(<<"a","a">>)>>
    /\ Len(slot[1].val) = 1
    /\ slot[1].val[1].line_number = 2

(***************************************************************************)
(* Where a run is.                                                         *)
(***************************************************************************)
\* The argument loop has run to its end and no closure has run yet: the
\* file list and the target list are final (nothing after the loop writes
\* them).
Discovered == pc = "scan" /\ \A k \in DOMAIN task : task[k] = "pending"

\* The run ended through process::exit of line 204.
ExitedNormally == pc = "exited" /\ stderr = <<>>

Count(seq, x) == Cardinality({k \in 1..Len(seq) : seq[k] = x})

(***************************************************************************)
(* C1: when all scans succeed, the aggregated list is the sequential one:  *)
(* files in filepaths order, per file the targets in search_strings order, *)
(* per pair what check_file returns, whatever order the closures ran in.   *)
(* Stated of the list as the collect returns it; nothing writes it later.  *)
(***************************************************************************)
SequentialPair(path, target) ==
    check_file(fs, path, target, check_case, escape).val

SequentialFile(path) ==
    Concat([t \in 1..Len(search_strings) |->
               SequentialPair(path, search_strings[t])])

SequentialResult ==
    Concat([k \in 1..Len(filepaths) |-> SequentialFile(filepaths[k])])

\* C1: under every order of the closures, the list the collect returns with
\* Ok equals the sequential result.
C1_AggregationIsSequential ==
    (pc = "collected" /\ all_results.ok) => all_results.val = SequentialResult

\* The closures of a run with two targets did not finish in index order, and
\* the list holds occurrences of two files.
C1_Witness ==
    /\ pc = "collected"
    /\ all_results.ok
    /\ Len(search_strings) >= 2
    /\ last_done # Len(filepaths)
    /\ \E a, b \in 1..Len(all_results.val) :
           /\ all_results.val[a].filename # all_results.val[b].filename
           /\ all_results.val[a].target_string # all_results.val[b].target_string

(***************************************************************************)
(* C3: a run in which a per-file scan failed with an I/O error ends with   *)
(* exit code 2.                                                            *)
(***************************************************************************)
C3_IoFailureExitsWith2 ==
    (pc = "exited" /\ saved_error # "none") => exit_code = 2

(***************************************************************************)
(* C4: a line is printed only after every closure has finished, and never  *)
(* in a run in which a scan failed.                                        *)
(***************************************************************************)
C4_NoOutputBeforeAllDone ==
    stdout # <<>> =>
        /\ pc \in {"print", "exited"}
        /\ saved_error = "none"
        /\ \A k \in DOMAIN task : task[k] = "done" /\ slot[k].ok

\* A run ended after a failed scan, another closure had finished with
\* occurrences, and nothing was printed.
C4_Witness ==
    /\ pc = "exited"
    /\ saved_error # "none"
    /\ stdout = <<>>
    /\ \E k \in DOMAIN task :
           task[k] = "done" /\ slot[k].ok /\ slot[k].val # <<>>

(***************************************************************************)
(* C5: no Occurance a closure returned, none in the aggregated list and    *)
(* none handed to the printing loop has a line that holds the escape       *)
(* marker, in either case mode.                                            *)
(***************************************************************************)
NoneEscaped(occs) ==
    \A k \in 1..Len(occs) : ~HoldsEscape(occs[k].line_content, escape)

\* C5: no Occurance anywhere in the run holds the escape marker.
C5_NoEscapedLineReported ==
    /\ \A k \in DOMAIN slot : NoneEscaped(slot[k].val)
    /\ NoneEscaped(all_results.val)
    /\ NoneEscaped(results)

\* A case-sensitive run reports occurrences although a scanned line holds
\* both a target and the escape marker.
C5_Witness ==
    /\ pc = "print"
    /\ check_case
    /\ results # <<>>
    /\ \E k \in DOMAIN filepaths, t \in DOMAIN search_strings :
           \E n \in DOMAIN fs[filepaths[k]].lines :
               /\ HoldsTarget(fs[filepaths[k]].lines[n].text, search_strings[t], TRUE)
               /\ HoldsEscape(fs[filepaths[k]].lines[n].text, escape)
               /\ slot[k].ok

(***************************************************************************)
(* C6: a run whose scan had no I/O failure exits with 1 exactly when the   *)
(* aggregated list is non-empty and with 0 exactly when it is empty, and   *)
(* has printed one line per Occurance, in order.                           *)
(***************************************************************************)
C6_ExitCodeAndLines ==
    ExitedNormally =>
        /\ all_results.ok
        /\ (exit_code = 1) <=> (all_results.val # <<>>)
        /\ (exit_code = 0) <=> (all_results.val = <<>>)
        /\ Len(stdout) = Len(all_results.val)
        /\ \A k \in 1..Len(stdout) :
               StartsWith(stdout[k],
                          all_results.val[k].filename \o <<":">>
                          \o UsizeToString(all_results.val[k].line_number))

\* A run printed at least two lines and exited with 1.
C6_Witness ==
    /\ ExitedNormally
    /\ Len(stdout) >= 2
    /\ exit_code = 1

(***************************************************************************)
(* C7: the discovered file list against the files reachable from the       *)
(* inputs.                                                                 *)
(***************************************************************************)
\* The 0-based indices of the arguments the loop examines, from k on: the
\* argument after a -w is taken as a word without being examined.
RECURSIVE ExaminedFrom(_)
ExaminedFrom(k) ==
    IF k > Len(args) - 1 THEN {}
    ELSE IF ~IsFile(fs, Arg(k)) /\ ~IsDir(fs, Arg(k)) /\ StartsWith(Arg(k), FLAG_WORD)
    THEN {k} \cup ExaminedFrom(k + 2)
    ELSE {k} \cup ExaminedFrom(k + 1)

Inputs == ExaminedFrom(1)

\* The directories on the way to p: its prefixes that end before a separator.
DirPrefixes(p) == {SubSeq(p, 1, k - 1) : k \in {j \in 1..Len(p) : p[j] = "/"}}

\* p is a regular file below directory d, and d and every directory between
\* d and p can be listed.
Under(p, d) ==
    /\ IsFile(fs, p)
    /\ d \in DirPrefixes(p)
    /\ \A q \in DirPrefixes(p) :
           Len(q) >= Len(d) => (IsDir(fs, q) /\ fs[q].ok)

NamedDirectly(inputs, p) == {k \in inputs : Arg(k) = p /\ IsFile(fs, p)}
NamedThroughDir(inputs, p) ==
    {k \in inputs : IsDir(fs, Arg(k)) /\ Under(p, Arg(k))}

Reachable(inputs, p) ==
    NamedDirectly(inputs, p) # {} \/ NamedThroughDir(inputs, p) # {}

C8_WidthIsOnePlusMax ==
    (pc = "print" \/ ExitedNormally) =>
        max_line_length =
            IF results = <<>> THEN 0
            ELSE 1 + MaxOf({Len(results[k].filename) + 1
                            + Len(UsizeToString(results[k].line_number)) :
                            k \in 1..Len(results)})

(***************************************************************************)
(* C9: a file with a line that cannot be decoded yields Ok with no         *)
(* Occurance, whatever its earlier lines hold; the run goes on, and the    *)
(* aggregated list is that of the other files.                             *)
(***************************************************************************)
DecodeFails(path) == fs[path].ok /\ FirstFailure(fs[path].lines) = "InvalidData"
ScansCleanly(path) == fs[path].ok /\ AllLinesDecode(fs[path].lines)

ExpectedOfFile(path) ==
    IF DecodeFails(path) THEN <<>>
    ELSE Concat([t \in 1..Len(search_strings) |->
                    ExpectedOccurrences(path, fs[path].lines,
                                        search_strings[t], check_case, escape)])

\* C9: a decode failure empties the file's output and leaves the rest of the
\* aggregated list as it is.
C9_DecodeFailureSkipsFile ==
    /\ \A k \in DOMAIN task :
           (task[k] = "done" /\ DecodeFails(filepaths[k]))
           => (slot[k].ok /\ slot[k].val = <<>>)
    /\ (/\ pc = "collected"
        /\ \A k \in 1..Len(filepaths) :
               DecodeFails(filepaths[k]) \/ ScansCleanly(filepaths[k]))
       => /\ all_results.ok
          /\ all_results.val =
                Concat([k \in 1..Len(filepaths) |-> ExpectedOfFile(filepaths[k])])

\* A file whose first line holds a target and whose second line cannot be
\* decoded was scanned, and the list holds the occurrences of another file.
C9_Witness ==
    /\ pc = "collected"
    /\ all_results.ok
    /\ all_results.val # <<>>
    /\ \E k \in DOMAIN task :
           /\ task[k] = "done"
           /\ DecodeFails(filepaths[k])
           /\ \E t \in DOMAIN search_strings :
                  HoldsTarget(fs[filepaths[k]].lines[1].text, search_strings[t],
                              check_case)
           /\ \A a \in 1..Len(all_results.val) :
                  all_results.val[a].filename # filepaths[k]

(***************************************************************************)
(* C10: an iteration of the argument loop on a regular file named          *)
(* .pre-commit-config.yaml or .pre-commit-config.yml changes neither the   *)
(* file list nor the target list; an iteration on a directory adds the     *)
(* file of that name it holds; and that file is scanned like any other.    *)
(***************************************************************************)
AtArgument == pc = "parse" /\ i <= Len(args) - 1

C10_Step ==
    /\ (AtArgument /\ IsFile(fs, Arg(i)) /\ FileName(Arg(i)) \in ExcludedFileNames)
       => (filepaths' = filepaths /\ search_strings' = search_strings)
    /\ (AtArgument /\ IsDir(fs, Arg(i)) /\ fs[Arg(i)].ok)
       => \A name \in ExcludedFileNames :
              IsFile(fs, Join(Arg(i), name))
              => Count(filepaths', Join(Arg(i), name))
                 = Count(filepaths, Join(Arg(i), name)) + 1
    /\ \A k \in DOMAIN task :
           (/\ pc = "scan"
            /\ task[k] = "pending"
            /\ k \in DOMAIN task'
            /\ task'[k] = "done"
            /\ FileName(filepaths[k]) \in ExcludedFileNames
            /\ ScansCleanly(filepaths[k]))
           => slot'[k] = Ok(ExpectedOfFile(filepaths[k]))

\* C10: in every step of a run, a directly named file with an excluded name
\* changes neither the file list nor the target list, a directory adds the
\* file of that name it holds, and the scan of such a file returns what the
\* scan of any file would.
C10_ExcludedOnlyWhenDirect == [][C10_Step]_vars

\* A run given .pre-commit-config.yaml and a directory holding a file of that
\* name reports occurrences of the second and none of the first.
C10_Witness ==
    /\ ExitedNormally
    /\ \E k \in 1..(Len(args) - 1) : Arg(k) = PRE_COMMIT_YAML
    /\ search_strings # <<>>
    /\ HoldsTarget(fs[PRE_COMMIT_YAML].lines[1].text, search_strings[1], check_case)
    /\ \E a \in 1..Len(results) : results[a].filename = PathDYaml
    /\ \A a \in 1..Len(results) : results[a].filename # PRE_COMMIT_YAML

====
